---- MODULE Spec2Model ----
(***************************************************************************)
(* A model of the AllKeysTable React component                             *)
(* (ui/litellm-dashboard, all_keys_table.tsx).                             *)
(*                                                                         *)
(* A state of the model is a state of the component after React has        *)
(* committed a render and flushed the effects of that render: an action    *)
(* is one event (a prop change by the parent, a click, the completion of   *)
(* an awaited lookup) together with the useEffect bodies whose             *)
(* dependencies the event changed.                                         *)
(***************************************************************************)
EXTENDS Integers, Sequences, FiniteSets, TLC

(***************************************************************************)
(* JavaScript values.  null and undefined are distinguished strings that   *)
(* no identifier of the model equals; a nullable list or a nullable text   *)
(* is a record carrying a null flag.                                       *)
(***************************************************************************)
NULL == "<null>"
UNDEF == "<undefined>"

\* JavaScript truthiness of an identifier-like string value.
Truthy(v) == v \notin {NULL, UNDEF, ""}

\* The JavaScript expression  v || ''
OrEmpty(v) == IF Truthy(v) THEN v ELSE ""

\* A nullable array (Team[] | null, Organization[] | null).
NullList == [null |-> TRUE, list |-> <<>>]
SomeList(l) == [null |-> FALSE, list |-> l]

\* A nullable / optional text whose characters matter (key_alias, the
\* 'Key Alias' entry of a filter set): a sequence of characters.
NullText == [null |-> TRUE, s |-> <<>>]
Text(s) == [null |-> FALSE, s |-> s]
TruthyText(t) == ~t.null /\ Len(t.s) > 0

(***************************************************************************)
(* String.prototype.toLowerCase and String.prototype.includes over the     *)
(* characters the model uses.                                              *)
(***************************************************************************)
LowerChar(c) ==
    CASE c = "A" -> "a"
      [] c = "B" -> "b"
      [] OTHER -> c

toLowerCase(s) == [i \in 1..Len(s) |-> LowerChar(s[i])]

includes(s, sub) ==
    \E start \in 1..(Len(s) + 1) :
        /\ start + Len(sub) - 1 <= Len(s)
        /\ SubSeq(s, start, start + Len(sub) - 1) = sub


\* A nullable object (Team | null, Organization | null).
NullObj == [null |-> TRUE]
Obj(x) == [null |-> FALSE, val |-> x]

\* Array.prototype.find with the two tests the component uses: the first
\* team (organization) of the list with the given id, or null.
RECURSIVE FindTeamFrom(_, _, _)
FindTeamFrom(list, id, i) ==
    IF i > Len(list) THEN NullObj
    ELSE IF list[i].team_id = id THEN Obj(list[i])
    ELSE FindTeamFrom(list, id, i + 1)

findTeam(list, id) == FindTeamFrom(list, id, 1)

RECURSIVE FindOrgFrom(_, _, _)
FindOrgFrom(list, id, i) ==
    IF i > Len(list) THEN NullObj
    ELSE IF list[i].organization_id = id THEN Obj(list[i])
    ELSE FindOrgFrom(list, id, i + 1)

findOrg(list, id) == FindOrgFrom(list, id, 1)

\* Array.prototype.map for the one projection the component uses.
MapUserId(list) == [i \in 1..Len(list) |-> list[i].user_id]

(***************************************************************************)
(* The records the parent and the lookups can supply.                      *)
(***************************************************************************)
Team(id, alias) == [team_id |-> id, team_alias |-> alias]
Organization(id, name) == [organization_id |-> id, organization_name |-> name]
KeyResponse(token, alias, team, org, user) ==
    [token |-> token, key_alias |-> alias, team_id |-> team,
     organization_id |-> org, user_id |-> user]

T1 == Team("t1", "Alpha")
T2 == Team("t2", "")
T3 == Team("t3", "Gamma")
O1 == Organization("o1", "Org One")
O2 == Organization("o2", "Org Two")

KA == KeyResponse("k1", Text(<<"a", "B">>), "t1", "o1", "u1")
KB == KeyResponse("k2", NullText, "t2", "o1", NULL)
KC == KeyResponse("", Text(<<"b">>), "t9", NULL, "u2")
KeyPool == {KA, KB, KC}

\* The longest key list the parent passes.
MaxKeys == 2
\* The most lookups of one kind awaited at once.
MaxInFlight == 2

SeqsUpTo(S, n) == UNION {[1..m -> S] : m \in 0..n}
KeyLists == SeqsUpTo(KeyPool, MaxKeys)

\* The default of the pageSize prop.
pageSize == 50
\* The most pages the parent reports.
MaxPages == 3

\* The pagination descriptors the parent passes: a current page among the
\* pages there are, or page 1 of none when the key list is empty.
Pagination(current, total) ==
    [currentPage |-> current, totalPages |-> total,
     totalCount |-> IF total = 0 THEN 0 ELSE (total - 1) * pageSize + 1]
Descriptors ==
    UNION {{Pagination(c, n) : c \in {1} \cup (1..n)} : n \in 0..MaxPages}
OnePage == Pagination(1, 1)

TeamLists == {NullList, SomeList(<<>>), SomeList(<<T1>>), SomeList(<<T2, T1>>)}
OrgLists == {NullList, SomeList(<<>>), SomeList(<<O1>>), SomeList(<<O1, O2>>)}
FetchedTeams == {<<>>, <<T3>>, <<T1, T2, T3>>}
FetchedOrgs == {<<>>, <<O2>>, <<O1, O2>>}
FetchedAliases == {<<>>, <<"aB">>}
TokenValues == {NULL, "tokA", "tokB"}

TeamIdInputs == {UNDEF, "", "t1", "t2", "t9"}
OrgIdInputs == {UNDEF, "", "o1"}
AliasInputs == {NullText, Text(<<>>), Text(<<"A", "B">>), Text(<<"b">>)}
NewFilterSets ==
    [TeamID : TeamIdInputs, OrganizationID : OrgIdInputs, KeyAlias : AliasInputs]

VARIABLES
    keys,              \* prop keys
    teams,             \* prop teams
    organizations,     \* prop organizations
    accessToken,       \* prop accessToken
    selectedTeam,      \* parent state behind setSelectedTeam
    currentOrg,        \* parent state behind setCurrentOrg
    selectedKeyId,     \* useState
    filters,           \* useState
    userList,          \* useState
    allKeyAliases,     \* useState
    allTeams,          \* useState
    allOrganizations,  \* useState
    filteredKeys,      \* useState
    userFetches,       \* awaited userListCall requests, in issue order
    filterLoads,       \* awaited loadAllFilterData runs, each at its await
    pagination,        \* prop pagination
    isLoading,         \* prop isLoading
    lastOp             \* history: the last event, with its input or the
                       \* value it replaced

vars == <<keys, teams, organizations, accessToken, selectedTeam, currentOrg,
          selectedKeyId, filters, userList, allKeyAliases, allTeams,
          allOrganizations, filteredKeys, userFetches, filterLoads,
          pagination, isLoading, lastOp>>

paging == <<pagination, isLoading>>
props == <<keys, teams, organizations, accessToken, paging>>
parentSelection == <<selectedTeam, currentOrg>>
lookups == <<userList, allKeyAliases, allTeams, allOrganizations>>
inFlight == <<userFetches, filterLoads>>

Op(name, arg) == [op |-> name, arg |-> arg]

EmptyFilters == [TeamID |-> "", OrganizationID |-> "", KeyAlias |-> <<>>]

(***************************************************************************)
(* The filter effect (useEffect on [keys, filters]): the value it passes   *)
(* to setFilteredKeys.  The guard on a missing keys prop is not modelled:  *)
(* the prop is a KeyResponse[] and the parent always passes an array.      *)
(***************************************************************************)
TeamIdMatches(key, f) == key.team_id = f.TeamID
OrganizationIdMatches(key, f) == key.organization_id = f.OrganizationID
\* Mutant: the alias comparison without the toLowerCase calls.
KeyAliasMatches_caseSensitive(key, f) ==
    /\ TruthyText(key.key_alias)
    /\ includes(key.key_alias.s, f.KeyAlias)

KeyAliasMatches(key, f) ==
    /\ TruthyText(key.key_alias)
    /\ includes(toLowerCase(key.key_alias.s), toLowerCase(f.KeyAlias))

FilterEffect(ks, f) ==
    LET result0 == ks
        result1 == IF Truthy(f.TeamID)
                   THEN SelectSeq(result0, LAMBDA key : TeamIdMatches(key, f))
                   ELSE result0
        result2 == IF Truthy(f.OrganizationID)
                   THEN SelectSeq(result1, LAMBDA key : OrganizationIdMatches(key, f))
                   ELSE result1
        result3 == IF Len(f.KeyAlias) > 0
                   THEN SelectSeq(result2, LAMBDA key : KeyAliasMatches(key, f))
                   ELSE result2
    IN  result3

(***************************************************************************)
(* The merge of a parent-supplied candidate into a held lookup list (the   *)
(* useEffects on [teams] and on [organizations]).                          *)
(***************************************************************************)
\* Mutant: a candidate as long as the held list replaces it.
MergeCandidate_tiesReplace(prev, candidate) ==
    IF ~candidate.null /\ Len(candidate.list) > 0
    THEN IF Len(prev) <= Len(candidate.list) THEN candidate.list ELSE prev
    ELSE prev

MergeCandidate(prev, candidate) ==
    IF ~candidate.null /\ Len(candidate.list) > 0
    THEN IF Len(prev) < Len(candidate.list) THEN candidate.list ELSE prev
    ELSE prev

\* What loadAllFilterData stores when fetchAllTeams / fetchAllOrganizations
\* returns data.
StoreFetched(prev, data) == IF Len(data) > 0 THEN data ELSE prev

(***************************************************************************)
(* The user lookup.  user_IDs is the request built from the keys;          *)
(* userListCall is the server's answer for a request, one record per       *)
(* requested id.                                                           *)
(***************************************************************************)
user_IDs(ks) == SelectSeq(MapUserId(ks), LAMBDA id : id # NULL)

userListCall(ids) ==
    [users |-> [i \in 1..Len(ids) |->
                   [user_id |-> ids[i], user_email |-> ids[i], user_role |-> "user"]]]

\* The user-list effect (useEffect on [accessToken, keys]).
UserListEffect(token, ks) ==
    IF Truthy(token) THEN Append(userFetches, user_IDs(ks)) ELSE userFetches

\* The load effect (useEffect on [accessToken]).
LoadEffect(token) ==
    IF Truthy(token) THEN Append(filterLoads, "aliases") ELSE filterLoads

RemoveAt(seq, i) == SubSeq(seq, 1, i - 1) \o SubSeq(seq, i + 1, Len(seq))

(***************************************************************************)
(* What the component renders.                                             *)
(***************************************************************************)
\* The top-level conditional of the returned JSX.
RenderedViews ==
    IF Truthy(selectedKeyId)
    THEN {[view |-> "KeyInfoView", keyId |-> selectedKeyId]}
    ELSE {[view |-> "table", keyId |-> NULL]}

TableVisible == \E v \in RenderedViews : v.view = "table"
DetailVisible == \E v \in RenderedViews : v.view = "KeyInfoView"

\* Mutant: the Team Alias cell looks the team up in the teams prop.
TeamAliasCell_usesProp(row, held) ==
    LET teamId == row.team_id
        team == findTeam(IF teams.null THEN <<>> ELSE teams.list, teamId)
    IN  IF ~team.null /\ Truthy(team.val.team_alias)
        THEN team.val.team_alias
        ELSE "Unknown"

\* The Team Alias cell of a row.
TeamAliasCell(row, held) ==
    LET teamId == row.team_id
        team == findTeam(held, teamId)
    IN  IF ~team.null /\ Truthy(team.val.team_alias)
        THEN team.val.team_alias
        ELSE "Unknown"

(***************************************************************************)
(* The state after the component has mounted with the given props and the  *)
(* effects of the first render have run.                                   *)
(***************************************************************************)
Mount(k, t, o, a, p, l) ==
    /\ pagination = p
    /\ isLoading = l
    /\ keys = k
    /\ teams = t
    /\ organizations = o
    /\ accessToken = a
    /\ selectedTeam = NullObj
    /\ currentOrg = NullObj
    /\ selectedKeyId = NULL
    /\ filters = EmptyFilters
    /\ userList = <<>>
    /\ allKeyAliases = <<>>
    /\ allTeams = MergeCandidate(IF t.null THEN <<>> ELSE t.list, t)
    /\ allOrganizations = MergeCandidate(IF o.null THEN <<>> ELSE o.list, o)
    /\ filteredKeys = FilterEffect(k, EmptyFilters)
    /\ userFetches = IF Truthy(a) THEN <<user_IDs(k)>> ELSE <<>>
    /\ filterLoads = IF Truthy(a) THEN <<"aliases">> ELSE <<>>
    /\ lastOp = Op("mount", NULL)

(***************************************************************************)
(* Events of the parent: it renders the component with a changed prop, and *)
(* the effects depending on that prop run.                                 *)
(***************************************************************************)
\* Mutant: the filter effect without keys among its dependencies.
ParentSetsKeys_staleFilter(k) ==
    /\ Truthy(accessToken) => Len(userFetches) < MaxInFlight
    /\ keys' = k
    /\ userFetches' = UserListEffect(accessToken, k)
    /\ lastOp' = Op("ParentSetsKeys", NULL)
    /\ UNCHANGED <<paging, teams, organizations, accessToken, parentSelection,
                   selectedKeyId, filters, lookups, filterLoads, filteredKeys>>

ParentSetsKeys(k) ==
    /\ Truthy(accessToken) => Len(userFetches) < MaxInFlight
    /\ keys' = k
    /\ filteredKeys' = FilterEffect(k, filters)
    /\ userFetches' = UserListEffect(accessToken, k)
    /\ lastOp' = Op("ParentSetsKeys", NULL)
    /\ UNCHANGED <<paging, teams, organizations, accessToken, parentSelection,
                   selectedKeyId, filters, lookups, filterLoads>>

ParentSetsTeams(candidate) ==
    /\ teams' = candidate
    /\ allTeams' = MergeCandidate(allTeams, candidate)
    /\ lastOp' = Op("ParentSetsTeams", Len(allTeams))
    /\ UNCHANGED <<paging, keys, organizations, accessToken, parentSelection,
                   selectedKeyId, filters, userList, allKeyAliases,
                   allOrganizations, filteredKeys, inFlight>>

ParentSetsOrganizations(candidate) ==
    /\ organizations' = candidate
    /\ allOrganizations' = MergeCandidate(allOrganizations, candidate)
    /\ lastOp' = Op("ParentSetsOrganizations", Len(allOrganizations))
    /\ UNCHANGED <<paging, keys, teams, accessToken, parentSelection, selectedKeyId,
                   filters, userList, allKeyAliases, allTeams, filteredKeys,
                   inFlight>>

ParentSetsAccessToken(a) ==
    /\ a # accessToken
    /\ Truthy(a) => /\ Len(userFetches) < MaxInFlight
                    /\ Len(filterLoads) < MaxInFlight
    /\ accessToken' = a
    /\ filterLoads' = LoadEffect(a)
    /\ userFetches' = UserListEffect(a, keys)
    /\ lastOp' = Op("ParentSetsAccessToken", NULL)
    /\ UNCHANGED <<paging, keys, teams, organizations, parentSelection, selectedKeyId,
                   filters, lookups, filteredKeys>>

\* The parent passes a new pagination descriptor; no effect depends on it.
ParentSetsPagination(d) ==
    /\ pagination' = d
    /\ lastOp' = Op("ParentSetsPagination", NULL)
    /\ UNCHANGED <<keys, teams, organizations, accessToken, isLoading,
                   parentSelection, selectedKeyId, filters, lookups,
                   filteredKeys, inFlight>>

\* The parent passes a new isLoading; no effect depends on it.
ParentSetsLoading(l) ==
    /\ l # isLoading
    /\ isLoading' = l
    /\ lastOp' = Op("ParentSetsLoading", NULL)
    /\ UNCHANGED <<keys, teams, organizations, accessToken, pagination,
                   parentSelection, selectedKeyId, filters, lookups,
                   filteredKeys, inFlight>>

(***************************************************************************)
(* The Previous and Next buttons of the table view.  A click calls the     *)
(* parent's onPageChange; the call is recorded with the descriptor and     *)
(* the isLoading the button was rendered with.                             *)
(***************************************************************************)
PreviousDisabled == isLoading \/ pagination.currentPage = 1
NextDisabled == isLoading \/ pagination.currentPage = pagination.totalPages

onPageChange(page) ==
    [page |-> page, totalPages |-> pagination.totalPages, isLoading |-> isLoading]

PreviousClick ==
    /\ TableVisible
    /\ ~PreviousDisabled
    /\ lastOp' = Op("PreviousClick", onPageChange(pagination.currentPage - 1))
    /\ UNCHANGED <<props, parentSelection, selectedKeyId, filters, lookups,
                   filteredKeys, inFlight>>

NextClick ==
    /\ TableVisible
    /\ ~NextDisabled
    /\ lastOp' = Op("NextClick", onPageChange(pagination.currentPage + 1))
    /\ UNCHANGED <<props, parentSelection, selectedKeyId, filters, lookups,
                   filteredKeys, inFlight>>

(***************************************************************************)
(* Events of the user in the table view.                                   *)
(***************************************************************************)
handleFilterChange(newFilters) ==
    LET next == [TeamID |-> OrEmpty(newFilters.TeamID),
                 OrganizationID |-> OrEmpty(newFilters.OrganizationID),
                 KeyAlias |-> IF TruthyText(newFilters.KeyAlias)
                              THEN newFilters.KeyAlias.s ELSE <<>>]
        selectedTeamData == findTeam(allTeams, newFilters.TeamID)
        selectedOrg == findOrg(allOrganizations, newFilters.OrganizationID)
    IN  /\ TableVisible
        /\ filters' = next
        /\ filteredKeys' = FilterEffect(keys, next)
        /\ selectedTeam' = IF Truthy(newFilters.TeamID) /\ ~selectedTeamData.null
                           THEN selectedTeamData ELSE selectedTeam
        /\ currentOrg' = IF Truthy(newFilters.OrganizationID) /\ ~selectedOrg.null
                         THEN selectedOrg ELSE currentOrg
        /\ lastOp' = Op("handleFilterChange", newFilters)
        /\ UNCHANGED <<props, selectedKeyId, lookups, inFlight>>

\* Mutant: a reset that clears the two id predicates only.
handleFilterReset_keepsAlias ==
    /\ TableVisible
    /\ filters' = [filters EXCEPT !.TeamID = "", !.OrganizationID = ""]
    /\ filteredKeys' = FilterEffect(keys, filters')
    /\ selectedTeam' = NullObj
    /\ currentOrg' = NullObj
    /\ lastOp' = Op("handleFilterReset", filters)
    /\ UNCHANGED <<props, selectedKeyId, lookups, inFlight>>

handleFilterReset ==
    /\ TableVisible
    /\ filters' = EmptyFilters
    /\ filteredKeys' = FilterEffect(keys, EmptyFilters)
    /\ selectedTeam' = NullObj
    /\ currentOrg' = NullObj
    /\ lastOp' = Op("handleFilterReset", filters)
    /\ UNCHANGED <<props, selectedKeyId, lookups, inFlight>>

\* Mutant: every Key ID cell opens the first row.
KeyIdCellClick_firstRow(i) ==
    /\ TableVisible
    /\ i \in 1..Len(filteredKeys)
    /\ selectedKeyId' = filteredKeys[1].token
    /\ lastOp' = Op("KeyIdCellClick", filteredKeys[i].token)
    /\ UNCHANGED <<props, parentSelection, filters, lookups, filteredKeys,
                   inFlight>>

\* The onClick of the Key ID cell of the i-th row of the table.
KeyIdCellClick(i) ==
    /\ TableVisible
    /\ i \in 1..Len(filteredKeys)
    /\ selectedKeyId' = filteredKeys[i].token
    /\ lastOp' = Op("KeyIdCellClick", filteredKeys[i].token)
    /\ UNCHANGED <<props, parentSelection, filters, lookups, filteredKeys,
                   inFlight>>

\* Mutant: closing the detail view also clears the filters.
onClose_clearsFilters ==
    /\ DetailVisible
    /\ selectedKeyId' = NULL
    /\ filters' = EmptyFilters
    /\ filteredKeys' = FilterEffect(keys, EmptyFilters)
    /\ lastOp' = Op("onClose", NULL)
    /\ UNCHANGED <<props, parentSelection, lookups, inFlight>>

\* The onClose the detail view is given.
onClose ==
    /\ DetailVisible
    /\ selectedKeyId' = NULL
    /\ lastOp' = Op("onClose", NULL)
    /\ UNCHANGED <<props, parentSelection, filters, lookups, filteredKeys,
                   inFlight>>

(***************************************************************************)
(* Completions of awaited lookups.  Any awaited call may return next.      *)
(***************************************************************************)
\* Mutant: an answer to a request built from an older key list is dropped.
userListCallReturns_dropsStale(i) ==
    /\ i \in 1..Len(userFetches)
    /\ userList' = IF userFetches[i] = user_IDs(keys)
                   THEN userListCall(userFetches[i]).users
                   ELSE userList
    /\ userFetches' = RemoveAt(userFetches, i)
    /\ lastOp' = Op("userListCallReturns", userFetches[i])
    /\ UNCHANGED <<props, parentSelection, selectedKeyId, filters,
                   allKeyAliases, allTeams, allOrganizations, filteredKeys,
                   filterLoads>>

userListCallReturns(i) ==
    /\ i \in 1..Len(userFetches)
    /\ userList' = userListCall(userFetches[i]).users
    /\ userFetches' = RemoveAt(userFetches, i)
    /\ lastOp' = Op("userListCallReturns", userFetches[i])
    /\ UNCHANGED <<props, parentSelection, selectedKeyId, filters,
                   allKeyAliases, allTeams, allOrganizations, filteredKeys,
                   filterLoads>>

fetchAllKeyAliasesReturns(i, aliases) ==
    /\ i \in 1..Len(filterLoads)
    /\ filterLoads[i] = "aliases"
    /\ allKeyAliases' = aliases
    /\ filterLoads' = [filterLoads EXCEPT ![i] = "teams"]
    /\ lastOp' = Op("fetchAllKeyAliasesReturns", aliases)
    /\ UNCHANGED <<props, parentSelection, selectedKeyId, filters, userList,
                   allTeams, allOrganizations, filteredKeys, userFetches>>

fetchAllTeamsReturns(i, teamsData) ==
    /\ i \in 1..Len(filterLoads)
    /\ filterLoads[i] = "teams"
    /\ allTeams' = StoreFetched(allTeams, teamsData)
    /\ filterLoads' = [filterLoads EXCEPT ![i] = "organizations"]
    /\ lastOp' = Op("fetchAllTeamsReturns", teamsData)
    /\ UNCHANGED <<props, parentSelection, selectedKeyId, filters, userList,
                   allKeyAliases, allOrganizations, filteredKeys, userFetches>>

fetchAllOrganizationsReturns(i, orgsData) ==
    /\ i \in 1..Len(filterLoads)
    /\ filterLoads[i] = "organizations"
    /\ allOrganizations' = StoreFetched(allOrganizations, orgsData)
    /\ filterLoads' = RemoveAt(filterLoads, i)
    /\ lastOp' = Op("fetchAllOrganizationsReturns", orgsData)
    /\ UNCHANGED <<props, parentSelection, selectedKeyId, filters, userList,
                   allKeyAliases, allTeams, filteredKeys, userFetches>>

(***************************************************************************)
(* Specifications.                                                         *)
(***************************************************************************)
\* The filter and selection behaviour: the parent pages through key lists
\* and the user filters, resets, opens and closes rows.  No access token,
\* so no lookup is awaited; the lookup lists are the parent's.
InitFilter ==
    \E k \in KeyLists : Mount(k, SomeList(<<T2, T1>>), SomeList(<<O1>>), NULL, OnePage, FALSE)

NextFilter ==
    \/ \E k \in KeyLists : ParentSetsKeys(k)
    \/ \E nf \in NewFilterSets : handleFilterChange(nf)
    \/ handleFilterReset
    \/ \E i \in 1..MaxKeys : KeyIdCellClick(i)
    \/ onClose

SpecFilter == InitFilter /\ [][NextFilter]_vars

\* The lookup-list behaviour: with an access token the component awaits
\* the full-universe lookups while the parent passes new team lists and
\* organization lists.
LookupKeyLists == {<<KA, KB>>, <<KA, KC>>}

InitLookup ==
    \E k \in LookupKeyLists, t \in TeamLists, o \in OrgLists :
        Mount(k, t, o, "tokA", OnePage, FALSE)

NextLookup ==
    \/ \E c \in TeamLists : ParentSetsTeams(c)
    \/ \E c \in OrgLists : ParentSetsOrganizations(c)
    \/ \E i \in 1..MaxInFlight : userListCallReturns(i)
    \/ \E i \in 1..MaxInFlight, r \in FetchedAliases : fetchAllKeyAliasesReturns(i, r)
    \/ \E i \in 1..MaxInFlight, r \in FetchedTeams : fetchAllTeamsReturns(i, r)
    \/ \E i \in 1..MaxInFlight, r \in FetchedOrgs : fetchAllOrganizationsReturns(i, r)

SpecLookup == InitLookup /\ [][NextLookup]_vars

\* The asynchronous behaviour: the parent passes new key pages and new
\* tokens while earlier lookups are still awaited, and the awaited lookups
\* return in any order.
AsyncKeyLists == {<<KA, KB>>, <<KC>>}
AsyncTokens == {"tokA", "tokB"}

InitAsync ==
    Mount(<<KA, KB>>, SomeList(<<T1>>), SomeList(<<O1>>), "tokA", OnePage, FALSE)

NextAsync ==
    \/ \E k \in AsyncKeyLists : ParentSetsKeys(k)
    \/ \E a \in AsyncTokens : ParentSetsAccessToken(a)
    \/ \E i \in 1..MaxInFlight : userListCallReturns(i)
    \/ \E i \in 1..MaxInFlight, r \in FetchedAliases : fetchAllKeyAliasesReturns(i, r)
    \/ \E i \in 1..MaxInFlight, r \in FetchedTeams : fetchAllTeamsReturns(i, r)
    \/ \E i \in 1..MaxInFlight, r \in FetchedOrgs : fetchAllOrganizationsReturns(i, r)

SpecAsync == InitAsync /\ [][NextAsync]_vars

(***************************************************************************)
(* What the filter is to compute, stated without the code's steps.         *)
(***************************************************************************)
Letter(c) == IF c \in {"a", "A"} THEN 1 ELSE IF c \in {"b", "B"} THEN 2 ELSE 0

ContainsIgnoringCase(s, p) ==
    \E off \in 0..Len(s) :
        /\ off + Len(p) <= Len(s)
        /\ \A j \in 1..Len(p) : Letter(s[off + j]) = Letter(p[j])

SatisfiesPredicates(key, f) ==
    /\ f.TeamID # "" => key.team_id = f.TeamID
    /\ f.OrganizationID # "" => key.organization_id = f.OrganizationID
    /\ f.KeyAlias # <<>> =>
          /\ ~key.key_alias.null
          /\ ContainsIgnoringCase(key.key_alias.s, f.KeyAlias)

\* result is exactly the elements of ks satisfying f, in the order of ks.
IsSatisfyingSublist(result, ks, f) ==
    LET idx == {i \in 1..Len(ks) : SatisfiesPredicates(ks[i], f)}
    IN  /\ Len(result) = Cardinality(idx)
        /\ \E pos \in [1..Len(result) -> idx] :
              /\ \A a, b \in 1..Len(result) : a < b => pos[a] < pos[b]
              /\ \A a \in 1..Len(result) : result[a] = ks[pos[a]]

\* C1: for the key list and predicate set of every state, the list the
\* filter recomputation produces is exactly the keys of the input, in input
\* order, that satisfy every non-empty predicate.
C1_FilterExact == IsSatisfyingSublist(FilterEffect(keys, filters), keys, filters)

\* All three predicates constrain at once, the alias one matching across
\* letter case, and the filter keeps one key of two.
C1_Witness ==
    /\ lastOp.op = "handleFilterChange"
    /\ filters = [TeamID |-> "t1", OrganizationID |-> "o1", KeyAlias |-> <<"A", "B">>]
    /\ keys = <<KB, KA>>
    /\ FilterEffect(keys, filters) = <<KA>>

AllFalsy(newFilters) ==
    /\ ~Truthy(newFilters.TeamID)
    /\ ~Truthy(newFilters.OrganizationID)
    /\ ~TruthyText(newFilters.KeyAlias)

\* C3: after a reset, or after applying a filter set whose three values
\* are empty or missing, the filtered list equals the full key list.
C3_EmptyRestoresAll ==
    (\/ lastOp.op = "handleFilterReset"
     \/ lastOp.op = "handleFilterChange" /\ AllFalsy(lastOp.arg))
        => filters = EmptyFilters /\ filteredKeys = keys

\* A reset that replaced three non-empty predicates over a two-key list.
C3_Witness ==
    /\ lastOp.op = "handleFilterReset"
    /\ lastOp.arg.TeamID = "t2"
    /\ lastOp.arg.OrganizationID = "o1"
    /\ lastOp.arg.KeyAlias = <<"b">>
    /\ keys = <<KA, KB>>
    /\ filteredKeys = keys

TableView == {[view |-> "table", keyId |-> NULL]}
DetailView(id) == {[view |-> "KeyInfoView", keyId |-> id]}

\* C6 as stated: clicking the Key ID cell of any row, whatever its token,
\* shows the detail view for exactly that token.
C6_AnyTokenOpensDetail ==
    lastOp.op = "KeyIdCellClick" => RenderedViews = DetailView(lastOp.arg)

\* C6 as amended: clicking the Key ID cell of a row whose token is
\* non-empty shows the detail view for exactly that token, clicking the
\* cell of a row whose token is empty leaves the table view, onClose
\* shows the table view, and in every state exactly one view is rendered:
\* the detail view when selectedKeyId is non-empty, the table otherwise.
C6_SelectionSwitchesView ==
    /\ lastOp.op = "KeyIdCellClick" /\ lastOp.arg # "" =>
          RenderedViews = DetailView(lastOp.arg)
    /\ lastOp.op = "KeyIdCellClick" /\ lastOp.arg = "" =>
          RenderedViews = TableView
    /\ lastOp.op = "onClose" => RenderedViews = TableView
    /\ Cardinality(RenderedViews) = 1
    /\ DetailVisible <=> ~TableVisible
    /\ DetailVisible <=> selectedKeyId \notin {NULL, ""}

\* The second row of a two-row table was clicked and its detail view shows.
C6_Witness ==
    /\ lastOp.op = "KeyIdCellClick"
    /\ lastOp.arg = "k2"
    /\ filteredKeys = <<KA, KB>>
    /\ RenderedViews = DetailView("k2")

\* C7: a step that selects a record id or clears it leaves the predicate
\* set, the filtered list, the held teams, organizations, aliases and
\* users, and the parent's team and organization selection unchanged.
C7_SelectionFrame ==
    [][lastOp'.op \in {"KeyIdCellClick", "onClose"} =>
          UNCHANGED <<filters, filteredKeys, lookups, parentSelection>>]_vars

\* The detail view was closed while predicates were held, a team was
\* selected in the parent and the table shows fewer rows than the key list.
C7_Witness ==
    /\ lastOp.op = "onClose"
    /\ filters.TeamID = "t1"
    /\ filters.KeyAlias = <<"A", "B">>
    /\ selectedTeam = Obj(T1)
    /\ keys = <<KA, KB>>
    /\ filteredKeys = <<KA>>

HeldTeam(id) == findTeam(allTeams, id)
HeldOrg(id) == findOrg(allOrganizations, id)

\* C10: after a filter application or reset the parent's selected team is
\* null when the Team ID predicate is empty and is the held team of that
\* id when the predicate names one; likewise the current organization.
C10_ParentSelectionFollowsFilters ==
    lastOp.op \in {"handleFilterChange", "handleFilterReset"} =>
        /\ filters.TeamID = "" => selectedTeam = NullObj
        /\ filters.TeamID # "" /\ ~HeldTeam(filters.TeamID).null =>
              selectedTeam = HeldTeam(filters.TeamID)
        /\ filters.OrganizationID = "" => currentOrg = NullObj
        /\ filters.OrganizationID # "" /\ ~HeldOrg(filters.OrganizationID).null =>
              currentOrg = HeldOrg(filters.OrganizationID)

CandidateLen(candidate) == IF candidate.null THEN 0 ELSE Len(candidate.list)

\* C4: when the parent passes a candidate list of teams (organizations) of
\* length M while a list of length N is held, the held list becomes the
\* candidate if M > N and is left unchanged if M <= N; a null candidate
\* counts as length 0.
C4_MergeKeepsLonger ==
    [][/\ lastOp'.op = "ParentSetsTeams" =>
             allTeams' = IF CandidateLen(teams') > Len(allTeams)
                         THEN teams'.list ELSE allTeams
       /\ lastOp'.op = "ParentSetsOrganizations" =>
             allOrganizations' = IF CandidateLen(organizations') > Len(allOrganizations)
                                 THEN organizations'.list ELSE allOrganizations]_vars

\* A two-team candidate has replaced a held one-team list.
C4_Witness ==
    /\ lastOp.op = "ParentSetsTeams"
    /\ lastOp.arg = 1
    /\ teams = SomeList(<<T2, T1>>)
    /\ allTeams = <<T2, T1>>

\* C5: the held teams list and the held organizations list never get
\* shorter, whatever the parent passes and whatever the lookups return.
C5_HeldListsGrowOnly ==
    [][/\ Len(allTeams') >= Len(allTeams)
       /\ Len(allOrganizations') >= Len(allOrganizations)]_vars

FirstMatch(held, teamId) ==
    LET matches == {j \in 1..Len(held) : held[j].team_id = teamId}
    IN  CHOOSE j \in matches : \A m \in matches : j <= m

HasMatch(held, teamId) == \E j \in 1..Len(held) : held[j].team_id = teamId

\* C8 as stated: a row whose team id matches no held team shows "Unknown",
\* and a row whose team id matches a held team shows that team's alias.
C8_CellShowsAliasOfMatch ==
    \A i \in 1..Len(filteredKeys) :
        LET row == filteredKeys[i]
            cell == TeamAliasCell(row, allTeams)
        IN  /\ ~HasMatch(allTeams, row.team_id) => cell = "Unknown"
            /\ HasMatch(allTeams, row.team_id) =>
                  cell = allTeams[FirstMatch(allTeams, row.team_id)].team_alias

\* C8 as amended: a row whose team id matches no held team shows
\* "Unknown"; a row whose team id matches a held team shows the alias of
\* the first such team when that alias is non-empty and "Unknown" when it
\* is empty or null.
C8_CellShowsAliasOrUnknown ==
    \A i \in 1..Len(filteredKeys) :
        LET row == filteredKeys[i]
            cell == TeamAliasCell(row, allTeams)
        IN  /\ ~HasMatch(allTeams, row.team_id) => cell = "Unknown"
            /\ HasMatch(allTeams, row.team_id) =>
                  LET alias == allTeams[FirstMatch(allTeams, row.team_id)].team_alias
                  IN  cell = IF alias \in {"", NULL, UNDEF} THEN "Unknown" ELSE alias

\* The held teams came from the lookup; the first row shows its team's
\* alias and the second row's team is not held.
C8_Witness ==
    /\ lastOp.op = "fetchAllTeamsReturns"
    /\ allTeams = <<T1, T2, T3>>
    /\ filteredKeys = <<KA, KC>>
    /\ HasMatch(allTeams, KA.team_id)
    /\ TeamAliasCell(KA, allTeams) = "Alpha"
    /\ ~HasMatch(allTeams, KC.team_id)
    /\ TeamAliasCell(KC, allTeams) = "Unknown"

\* C9 as stated: whenever an awaited lookup returns, its slot holds what
\* that lookup returned (the user list, the aliases, the teams, the
\* organizations): no result is discarded.
C9_LastCompletedWins ==
    /\ lastOp.op = "userListCallReturns" =>
          userList = userListCall(lastOp.arg).users
    /\ lastOp.op = "fetchAllKeyAliasesReturns" => allKeyAliases = lastOp.arg
    /\ lastOp.op = "fetchAllTeamsReturns" => allTeams = lastOp.arg
    /\ lastOp.op = "fetchAllOrganizationsReturns" => allOrganizations = lastOp.arg

\* C9 as amended: when an awaited user lookup or alias lookup returns, its
\* slot holds what that lookup returned, whatever the current key list is;
\* when an awaited teams or organizations lookup returns a non-empty list
\* its slot holds that list, and when it returns an empty list the slot
\* keeps what it held; a change of keys or token removes no awaited lookup.
C9_LastCompletedWinsUnlessEmpty ==
    [][/\ lastOp'.op = "userListCallReturns" =>
             userList' = userListCall(lastOp'.arg).users
       /\ lastOp'.op = "fetchAllKeyAliasesReturns" =>
             allKeyAliases' = lastOp'.arg
       /\ lastOp'.op = "fetchAllTeamsReturns" =>
             allTeams' = IF Len(lastOp'.arg) > 0 THEN lastOp'.arg ELSE allTeams
       /\ lastOp'.op = "fetchAllOrganizationsReturns" =>
             allOrganizations' = IF Len(lastOp'.arg) > 0 THEN lastOp'.arg
                                 ELSE allOrganizations
       /\ lastOp'.op \in {"ParentSetsKeys", "ParentSetsAccessToken"} =>
             /\ Len(userFetches') >= Len(userFetches)
             /\ SubSeq(userFetches', 1, Len(userFetches)) = userFetches
             /\ Len(filterLoads') >= Len(filterLoads)
             /\ SubSeq(filterLoads', 1, Len(filterLoads)) = filterLoads]_vars

\* Every key change here starts a user lookup.  The lookup for the first
\* key list returned last, after the one for the current key list: the
\* held users are those of the first key list.
C9_Witness ==
    /\ lastOp.op = "userListCallReturns"
    /\ lastOp.arg = user_IDs(<<KA, KB>>)
    /\ keys = <<KC>>
    /\ userFetches = <<>>
    /\ userList = userListCall(<<"u1">>).users
    /\ userList # userListCall(user_IDs(keys)).users

\* The paging behaviour: the parent passes pagination descriptors and
\* loading flags, and the user pages and opens and closes rows.
InitPaging ==
    \E d \in Descriptors, l \in BOOLEAN :
        Mount(<<KA, KB>>, SomeList(<<T1>>), SomeList(<<O1>>), NULL, d, l)

NextPaging ==
    \/ \E d \in Descriptors : ParentSetsPagination(d)
    \/ \E l \in BOOLEAN : ParentSetsLoading(l)
    \/ PreviousClick
    \/ NextClick
    \/ \E i \in 1..MaxKeys : KeyIdCellClick(i)
    \/ onClose

SpecPaging == InitPaging /\ [][NextPaging]_vars

\* C11: every page number the Previous and Next buttons pass to
\* onPageChange lies in 1..totalPages of the descriptor the parent
\* supplied, and no page is requested while isLoading is true.
C11_RequestsExistingPages ==
    lastOp.op \in {"PreviousClick", "NextClick"} =>
        /\ lastOp.arg.page \in 1..lastOp.arg.totalPages
        /\ ~lastOp.arg.isLoading

\* Every event, from every mount.  The three specifications above are this
\* one with fewer events and fewer mounts.
Init ==
    \E k \in KeyLists, t \in TeamLists, o \in OrgLists, a \in TokenValues,
       d \in Descriptors, l \in BOOLEAN :
        Mount(k, t, o, a, d, l)

Next ==
    \/ \E k \in KeyLists : ParentSetsKeys(k)
    \/ \E c \in TeamLists : ParentSetsTeams(c)
    \/ \E c \in OrgLists : ParentSetsOrganizations(c)
    \/ \E a \in TokenValues : ParentSetsAccessToken(a)
    \/ \E d \in Descriptors : ParentSetsPagination(d)
    \/ \E l \in BOOLEAN : ParentSetsLoading(l)
    \/ PreviousClick
    \/ NextClick
    \/ \E nf \in NewFilterSets : handleFilterChange(nf)
    \/ handleFilterReset
    \/ \E i \in 1..MaxKeys : KeyIdCellClick(i)
    \/ onClose
    \/ \E i \in 1..MaxInFlight : userListCallReturns(i)
    \/ \E i \in 1..MaxInFlight, r \in FetchedAliases : fetchAllKeyAliasesReturns(i, r)
    \/ \E i \in 1..MaxInFlight, r \in FetchedTeams : fetchAllTeamsReturns(i, r)
    \/ \E i \in 1..MaxInFlight, r \in FetchedOrgs : fetchAllOrganizationsReturns(i, r)

Spec == Init /\ [][Next]_vars

====
